---------------------------- MODULE Spec2Model ----------------------------
(***************************************************************************)
(* A model of src/app.py, the category hierarchy generator.                *)
(*                                                                         *)
(* Strings are sequences of code points, so that str.strip, str.lower,     *)
(* '\n'.join and the ordering used by sorted() are computed rather than    *)
(* assumed.  A cell of the DataFrame is either a Python str or the float   *)
(* NaN that pandas stores for a missing cell.  A dict is a sequence of     *)
(* [key, value] entries in insertion order.                                *)
(***************************************************************************)
EXTENDS Integers, Sequences, FiniteSets, TLC

VARIABLES df, rowIdx, hierarchy, styled, expander, pmOut, msOut,
          hierarchies, display

vars == <<df, rowIdx, hierarchy, styled, expander, pmOut, msOut,
          hierarchies, display>>

(***************************************************************************)
(* Bounds of the model.                                                    *)
(***************************************************************************)
MaxRows == 2
RichRows == 1
StyleRows == 1
MaxLevel == 7
PairRows == 3
GroupRows == 3
SparseRows == 2

(***************************************************************************)
(* Python values.                                                          *)
(***************************************************************************)
PyStr(s) == [t |-> "str", s |-> s]

NaN == [t |-> "float", s |-> <<>>]

\* str(x): a str is itself, float('nan') prints as 'nan'.
str(x) == IF x.t = "float" THEN <<110, 97, 110>> ELSE x.s

\* pd.isna(x) for the two kinds of cell.
isna(x) == x.t = "float"

\* The characters str.strip() removes (the ASCII ones).
Whitespace == {9, 10, 11, 12, 13, 28, 29, 30, 31, 32}

RECURSIVE lstrip(_)
lstrip(s) ==
    IF s # <<>> /\ Head(s) \in Whitespace THEN lstrip(Tail(s)) ELSE s

RECURSIVE rstrip(_)
rstrip(s) ==
    IF s # <<>> /\ s[Len(s)] \in Whitespace
    THEN rstrip(SubSeq(s, 1, Len(s) - 1))
    ELSE s

strip(s) == rstrip(lstrip(s))

lower(s) == [i \in 1..Len(s) |-> IF s[i] \in 65..90 THEN s[i] + 32 ELSE s[i]]

\* 'nan'
nan_literal == <<110, 97, 110>>

\* str < str: lexicographic by code point.
RECURSIVE StrLess(_, _)
StrLess(a, b) ==
    IF b = <<>> THEN FALSE
    ELSE IF a = <<>> THEN TRUE
    ELSE IF Head(a) # Head(b) THEN Head(a) < Head(b)
    ELSE StrLess(Tail(a), Tail(b))

(***************************************************************************)
(* dict, insertion ordered.                                                *)
(***************************************************************************)
EmptyDict == <<>>

HasKey(d, k) == \E i \in 1..Len(d) : d[i].key = k

KeyIndex(d, k) ==
    CHOOSE i \in 1..Len(d) : d[i].key = k /\ \A j \in 1..(i - 1) : d[j].key # k

GetItem(d, k) == d[KeyIndex(d, k)].value

SetItem(d, k, v) ==
    IF HasKey(d, k)
    THEN [d EXCEPT ![KeyIndex(d, k)] = [key |-> k, value |-> v]]
    ELSE Append(d, [key |-> k, value |-> v])

(***************************************************************************)
(* build_hierarchy, lines 7-22.                                            *)
(***************************************************************************)
\* Lines 18-19 with the membership test dropped: current[value] = {} always.
ensure_child_reset(current, value) == SetItem(current, value, EmptyDict)

\* Lines 18-19: if value not in current: current[value] = {}
ensure_child(current, value) ==
    IF ~HasKey(current, value)
    THEN SetItem(current, value, EmptyDict)
    ELSE current

\* Lines 15-20 for one row, from column i on, with `current` the dict the
\* walk has reached; the result is that dict after the rest of the walk.
RECURSIVE walk_columns(_, _, _)
walk_columns(current, row, i) ==
    IF i > Len(row) THEN current
    ELSE LET value == strip(str(row[i])) IN
         IF value # <<>> /\ lower(value) # nan_literal
         THEN LET c == ensure_child(current, value) IN
              SetItem(c, value, walk_columns(GetItem(c, value), row, i + 1))
         ELSE walk_columns(current, row, i + 1)

\* Lines 13-20 over rows n+1 .. Len(rows).
RECURSIVE fold_rows(_, _, _)
fold_rows(h, rows, n) ==
    IF n >= Len(rows) THEN h
    ELSE fold_rows(walk_columns(h, rows[n + 1], 1), rows, n + 1)

build_hierarchy(d) == fold_rows(EmptyDict, d.rows, 0)

(***************************************************************************)
(* format_hierarchy_styled, lines 24-43.                                   *)
(***************************************************************************)
styles_styled ==
    << "color:#ffffff; font-size:22px; font-weight:bold;",
       "color:#ffd700; font-size:20px; font-weight:bold;",
       "color:#00ffcc; font-size:18px;",
       "color:#ff69b4; font-size:16px;",
       "color:#87ceeb; font-size:15px;",
       "color:#cccccc; font-size:14px;" >>

\* styles[i] of a Python list: negative indices count from the end, anything
\* else out of range raises IndexError.
Subscript(styles, i) ==
    IF 0 <= i /\ i < Len(styles) THEN styles[i + 1]
    ELSE IF -Len(styles) <= i /\ i < 0 THEN styles[Len(styles) + i + 1]
    ELSE "IndexError"

\* Line 39 with <= for <.
pick_style_off_by_one(styles, level) ==
    IF level <= Len(styles) THEN Subscript(styles, level)
    ELSE Subscript(styles, -1)

\* Lines 39 and 125: styles[level] if level < len(styles) else styles[-1]
pick_style(styles, level) ==
    IF level < Len(styles) THEN Subscript(styles, level)
    ELSE Subscript(styles, -1)

\* Lines 38-42 with the recursion at `level` instead of `level + 1`.
RECURSIVE styled_lines_flat(_, _, _)
styled_lines_flat(h, level, at) ==
    IF h = <<>> THEN <<>>
    ELSE LET e == Head(h)
             line == [style |-> pick_style(styles_styled, level),
                      key |-> e.key, node |-> Append(at, e.key)]
         IN  <<line>>
             \o (IF e.value # <<>>
                 THEN styled_lines_flat(e.value, level, Append(at, e.key))
                 ELSE <<>>)
             \o styled_lines_flat(Tail(h), level, at)

\* Lines 37-43.  A line f'<div style="{style}">{key}</div>' is the record of
\* its style and key; `node` is the path of keys from the dict passed in to
\* the entry the line was emitted for (`at` is the path of h itself).
RECURSIVE styled_lines(_, _, _)
styled_lines(h, level, at) ==
    IF h = <<>> THEN <<>>
    ELSE LET e == Head(h)
             line == [style |-> pick_style(styles_styled, level),
                      key |-> e.key, node |-> Append(at, e.key)]
         IN  <<line>>
             \o (IF e.value # <<>>
                 THEN styled_lines(e.value, level + 1, Append(at, e.key))
                 ELSE <<>>)
             \o styled_lines(Tail(h), level, at)

\* The outcome of a call that builds a list of lines: the list, or the
\* IndexError the style lookup raised.
Outcome(lines) ==
    IF \E i \in 1..Len(lines) : lines[i].style = "IndexError"
    THEN [status |-> "raise", lines |-> <<>>]
    ELSE [status |-> "return", lines |-> lines]

format_hierarchy_styled(h, level) == Outcome(styled_lines(h, level, <<>>))

(***************************************************************************)
(* format_hierarchy_for_expander, lines 112-130.                           *)
(***************************************************************************)
styles_expander ==
    << "color:#ffffff; font-size:20px; font-weight:bold;",
       "color:#ffd700; font-size:18px; font-weight:bold;",
       "color:#00ffcc; font-size:16px;",
       "color:#ff69b4; font-size:15px;" >>

\* Line 124: '&nbsp;' * 4 * level, as the number of &nbsp; entities.
indent_nbsp(level) == IF 4 * level > 0 THEN 4 * level ELSE 0

\* Lines 123-130: one line per item, all with the style and indent of level.
expander_lines(items, level) ==
    [i \in 1..Len(items) |->
        [style |-> pick_style(styles_expander, level),
         indent |-> indent_nbsp(level),
         item |-> items[i]]]

format_hierarchy_for_expander(items, level) ==
    LET style == pick_style(styles_expander, level) IN
    IF style = "IndexError"
    THEN [status |-> "raise", lines |-> <<>>]
    ELSE [status |-> "return", lines |-> expander_lines(items, level)]

(***************************************************************************)
(* The DataFrame: df.columns in order, and the rows, each a tuple of cells *)
(* aligned with df.columns.                                                *)
(***************************************************************************)
PARENT == "PARENT CATEGORY"
MASTER == "MASTER CATEGORY"
SUB1 == "SUBCATEGORY 1"
SUB2 == "SUBCATEGORY 2"

\* name in df.columns
in_columns(d, name) == \E i \in 1..Len(d.columns) : d.columns[i] = name

ColIndex(d, name) == CHOOSE i \in 1..Len(d.columns) : d.columns[i] = name

\* The indices of all rows, in order: the frame before any selection.
AllRows(d) == [i \in 1..Len(d.rows) |-> i]

\* frame[name] over a selection of rows (frame[mask] is SelectSeq on the row
\* indices): the cells of that column, in order.
Series(d, sel, name) == [i \in 1..Len(sel) |-> d.rows[sel[i]][ColIndex(d, name)]]

\* Series.unique(): the distinct values in order of first appearance.
RECURSIVE unique(_)
unique(s) ==
    IF s = <<>> THEN <<>>
    ELSE LET init == unique(SubSeq(s, 1, Len(s) - 1))
             x == s[Len(s)]
         IN  IF \E i \in 1..Len(init) : init[i] = x THEN init ELSE Append(init, x)

Cell(d, r, name) == d.rows[r][ColIndex(d, name)]

\* series == value, elementwise: NaN equals nothing, a str equals an equal str.
Eq(x, v) == x.t = "str" /\ v.t = "str" /\ x.s = v.s

\* sorted(xs) raises TypeError when it has to compare a float with a str: with
\* distinct values that is whenever both kinds occur among two or more.
sorted_raises(xs) ==
    /\ Len(xs) >= 2
    /\ \E i \in 1..Len(xs) : xs[i].t = "float"
    /\ \E i \in 1..Len(xs) : xs[i].t = "str"

\* sorted(xs) of comparable values: ascending by code point.
RECURSIVE sorted(_)
sorted(xs) ==
    IF Len(xs) <= 1 THEN xs
    ELSE LET m == CHOOSE i \in 1..Len(xs) :
                    /\ \A j \in 1..Len(xs) : ~StrLess(xs[j].s, xs[i].s)
                    /\ \A j \in 1..(i - 1) : StrLess(xs[i].s, xs[j].s)
             rest == [j \in 1..(Len(xs) - 1) |-> IF j < m THEN xs[j] ELSE xs[j + 1]]
         IN  <<xs[m]>> \o sorted(rest)

\* sep.join(lines)
RECURSIVE join(_, _)
join(sep, lines) ==
    IF lines = <<>> THEN <<>>
    ELSE IF Len(lines) = 1 THEN lines[1]
    ELSE lines[1] \o sep \o join(sep, Tail(lines))

NL == <<10>>

\* '    '
INDENT == <<32, 32, 32, 32>>

\* 'Columns not found!'
ColumnsNotFound ==
    <<67, 111, 108, 117, 109, 110, 115, 32, 110, 111, 116, 32,
      102, 111, 117, 110, 100, 33>>

NotCalled == [status |-> "none", text |-> <<>>, exc |-> ""]

Return(text) == [status |-> "return", text |-> text, exc |-> ""]

Raise(exc) == [status |-> "raise", text |-> <<>>, exc |-> exc]

\* Lines 49 and 71 testing the first column only.
has_columns_first_only(d, a, b) == in_columns(d, a)

\* Lines 49 and 71: 'A' in df.columns and 'B' in df.columns
has_columns(d, a, b) == in_columns(d, a) /\ in_columns(d, b)

(***************************************************************************)
(* show_parent_master_only, lines 45-65.                                   *)
(***************************************************************************)
\* Line 57: df[df['PARENT CATEGORY'] == parent]['MASTER CATEGORY'].unique()
pm_masters(d, parent) ==
    LET Keep(r) == Eq(Cell(d, r, PARENT), parent)
    IN  unique(Series(d, SelectSeq(AllRows(d), Keep), MASTER))

\* Lines 58-61: the lines of the masters, sorted, the missing ones skipped.
RECURSIVE child_lines(_)
child_lines(xs) ==
    IF xs = <<>> THEN <<>>
    ELSE (IF isna(Head(xs)) THEN <<>> ELSE <<INDENT \o Head(xs).s>>)
         \o child_lines(Tail(xs))

\* Lines 52-62 over the parents from position i on.
RECURSIVE pm_lines(_, _, _)
pm_lines(d, parents, i) ==
    IF i > Len(parents) THEN <<>>
    ELSE IF isna(parents[i]) THEN pm_lines(d, parents, i + 1)
    ELSE <<parents[i].s>>
         \o child_lines(sorted(pm_masters(d, parents[i])))
         \o << <<>> >>
         \o pm_lines(d, parents, i + 1)

show_parent_master_only(d) ==
    IF has_columns(d, PARENT, MASTER)
    THEN IF ~in_columns(d, PARENT) \/ ~in_columns(d, MASTER)
         THEN Raise("KeyError")
         ELSE LET parents == unique(Series(d, AllRows(d), PARENT)) IN
              IF \E i \in 1..Len(parents) :
                    ~isna(parents[i]) /\ sorted_raises(pm_masters(d, parents[i]))
              THEN Raise("TypeError")
              ELSE Return(strip(join(NL, pm_lines(d, parents, 1))))
    ELSE Return(ColumnsNotFound)

(***************************************************************************)
(* show_master_sub1_pairs, lines 67-89.                                    *)
(***************************************************************************)
\* Lines 79-83: the SUBCATEGORY 1 values of the rows of this master that are
\* neither missing nor ''.
ms_sub1s(d, master) ==
    LET Keep(r) == /\ Eq(Cell(d, r, MASTER), master)
                   /\ ~isna(Cell(d, r, SUB1))
                   /\ ~Eq(Cell(d, r, SUB1), PyStr(<<>>))
    IN  unique(Series(d, SelectSeq(AllRows(d), Keep), SUB1))

\* Lines 84-85.
sub1_lines(xs) == [i \in 1..Len(xs) |-> INDENT \o xs[i].s]

\* Lines 74-86 over the masters from position i on.
RECURSIVE ms_lines(_, _, _)
ms_lines(d, masters, i) ==
    IF i > Len(masters) THEN <<>>
    ELSE IF isna(masters[i]) THEN ms_lines(d, masters, i + 1)
    ELSE <<masters[i].s>>
         \o sub1_lines(sorted(ms_sub1s(d, masters[i])))
         \o << <<>> >>
         \o ms_lines(d, masters, i + 1)

show_master_sub1_pairs(d) ==
    IF has_columns(d, MASTER, SUB1)
    THEN IF ~in_columns(d, MASTER) \/ ~in_columns(d, SUB1)
         THEN Raise("KeyError")
         ELSE LET masters == unique(Series(d, AllRows(d), MASTER)) IN
              IF \E i \in 1..Len(masters) :
                    ~isna(masters[i]) /\ sorted_raises(ms_sub1s(d, masters[i]))
              THEN Raise("TypeError")
              ELSE Return(strip(join(NL, ms_lines(d, masters, 1))))
    ELSE Return(ColumnsNotFound)

(***************************************************************************)
(* get_hierarchy_by_parent, lines 132-185.                                 *)
(***************************************************************************)
\* Lines 171-175 without the SUBCATEGORY 1 == sub1 condition.
gh_sub2_any_sub1(d, master_data, sub1) ==
    LET Keep(r) == /\ ~isna(Cell(d, r, SUB2))
                   /\ ~Eq(Cell(d, r, SUB2), PyStr(<<>>))
        xs == unique(Series(d, SelectSeq(master_data, Keep), SUB2))
    IN  [i \in 1..Len(xs) |-> xs[i].s]

\* Lines 171-177: list(sub2_data).
gh_sub2(d, master_data, sub1) ==
    LET Keep(r) == /\ Eq(Cell(d, r, SUB1), sub1)
                   /\ ~isna(Cell(d, r, SUB2))
                   /\ ~Eq(Cell(d, r, SUB2), PyStr(<<>>))
        xs == unique(Series(d, SelectSeq(master_data, Keep), SUB2))
    IN  [i \in 1..Len(xs) |-> xs[i].s]

\* Lines 159-179: master_dict['sub1'] for the rows master_data.
gh_sub1(d, master_data) ==
    LET NotNa(x) == ~isna(x)
        sub1_data == unique(SelectSeq(Series(d, master_data, SUB1), NotNa))
        Present(x) == ~(isna(x) \/ Eq(x, PyStr(<<>>)))
        kept == SelectSeq(sub1_data, Present)
    IN  [i \in 1..Len(kept) |->
            [name |-> kept[i].s,
             sub2 |-> IF in_columns(d, SUB2)
                      THEN gh_sub2(d, master_data, kept[i])
                      ELSE <<>>]]

\* Lines 148-181: hierarchy['masters'] for the rows parent_data.
gh_masters(d, parent_data) ==
    LET NotNa(x) == ~isna(x)
        masters == SelectSeq(unique(Series(d, parent_data, MASTER)), NotNa)
    IN  [i \in 1..Len(masters) |->
            LET Keep(r) == Eq(Cell(d, r, MASTER), masters[i])
            IN  [name |-> masters[i].s,
                 sub1 |-> gh_sub1(d, SelectSeq(parent_data, Keep))]]

\* Lines 138-183 over the parents from position i on, into the dict hs.
RECURSIVE gh_parents(_, _, _, _)
gh_parents(d, parents, i, hs) ==
    IF i > Len(parents) THEN hs
    ELSE IF isna(parents[i]) THEN gh_parents(d, parents, i + 1, hs)
    ELSE LET Keep(r) == Eq(Cell(d, r, PARENT), parents[i])
             h == [parent |-> parents[i].s,
                   masters |-> gh_masters(d, SelectSeq(AllRows(d), Keep))]
         IN  gh_parents(d, parents, i + 1, SetItem(hs, parents[i].s, h))

NotGrouped == [status |-> "none", value |-> <<>>]

get_hierarchy_by_parent(d) ==
    IF ~(in_columns(d, PARENT) /\ in_columns(d, MASTER) /\ in_columns(d, SUB1))
    THEN [status |-> "raise", value |-> <<>>]
    ELSE [status |-> "return",
          value |-> gh_parents(d, unique(Series(d, AllRows(d), PARENT)), 1, EmptyDict)]

(***************************************************************************)
(* display_hierarchy_by_parent, lines 187-210.  An expander is the record  *)
(* of its label and its body, the st.markdown calls made inside it; the    *)
(* argument of a call, '<br>'.join(html), is the list of lines joined.     *)
(***************************************************************************)
\* Lines 202-210 for one sub1 entry.
display_sub1(sub1) ==
    <<format_hierarchy_for_expander(<<sub1.name>>, 2).lines>>
    \o (IF sub1.sub2 # <<>>
        THEN <<format_hierarchy_for_expander(sub1.sub2, 3).lines>>
        ELSE <<>>)

RECURSIVE display_sub1s(_)
display_sub1s(sub1s) ==
    IF sub1s = <<>> THEN <<>>
    ELSE display_sub1(Head(sub1s)) \o display_sub1s(Tail(sub1s))

\* Lines 196-210: the body of one expander.
RECURSIVE display_masters(_)
display_masters(masters) ==
    IF masters = <<>> THEN <<>>
    ELSE <<format_hierarchy_for_expander(<<Head(masters).name>>, 1).lines>>
         \o display_sub1s(Head(masters).sub1)
         \o display_masters(Tail(masters))

NotDisplayed == [status |-> "none", units |-> <<>>]

display_hierarchy_by_parent(d) ==
    LET hs == get_hierarchy_by_parent(d) IN
    IF hs.status = "raise" THEN [status |-> "raise", units |-> <<>>]
    ELSE [status |-> "return",
          units |-> [i \in 1..Len(hs.value) |->
                        [label |-> hs.value[i].key,
                         body |-> display_masters(hs.value[i].value.masters)]]]

(***************************************************************************)
(* The tables the calls are made on.                                       *)
(***************************************************************************)
sA == PyStr(<<65>>)
sB == PyStr(<<66>>)
sLowerA == PyStr(<<97>>)
sEmpty == PyStr(<<>>)
sBlank == PyStr(<<32>>)
sPaddedA == PyStr(<<32, 65, 32>>)
sNaNWord == PyStr(<<78, 97, 78>>)

ThreeColumns == <<PARENT, MASTER, SUB1>>
FourColumns == <<PARENT, MASTER, SUB1, SUB2>>

PlainCells == {sA, sB, sEmpty}
RichCells == {sPaddedA, sB, sBlank, NaN, sNaNWord}
StyleCells == {sA, sB, NaN}
PairCells == {sA, sB, sLowerA, NaN}
CompleteCells == {sA, sB}
SparseCells == {sA, NaN}

ItemLists == {<<>>, <<(<<65>>)>>, <<(<<65>>), (<<66>>)>>}

PairColumns ==
    { <<PARENT, MASTER>>, <<MASTER, SUB1>>, <<PARENT, SUB1>>,
      <<PARENT>>, <<MASTER>>, <<SUB1>> }

\* d is a table with the columns cols, at most n rows and cells among cells.
IsTable(d, cols, cells, n) ==
    \E k \in 0..n : \E rs \in [1..k -> [1..Len(cols) -> cells]] :
        d = [columns |-> cols, rows |-> rs]

(***************************************************************************)
(* The state machine: a table is chosen, then the functions are called.    *)
(***************************************************************************)
StyledNotRun == [status |-> "none", lines |-> <<>>, level |-> 0]

ExpanderNotRun == [status |-> "none", lines |-> <<>>, level |-> 0, items |-> <<>>]

NothingCalled ==
    /\ rowIdx = 0
    /\ hierarchy = EmptyDict
    /\ styled = StyledNotRun
    /\ expander = ExpanderNotRun
    /\ pmOut = NotCalled
    /\ msOut = NotCalled
    /\ hierarchies = NotGrouped
    /\ display = NotDisplayed

\* One iteration of the loop of line 13 in build_hierarchy.
BuildHierarchyRow ==
    /\ rowIdx < Len(df.rows)
    /\ hierarchy' = walk_columns(hierarchy, df.rows[rowIdx + 1], 1)
    /\ rowIdx' = rowIdx + 1
    /\ UNCHANGED <<df, styled, expander, pmOut, msOut, hierarchies, display>>

\* format_hierarchy_styled(hierarchy, level) on the tree build_hierarchy
\* returned.
FormatHierarchyStyled(levels) ==
    /\ rowIdx = Len(df.rows)
    /\ styled.status = "none"
    /\ \E level \in levels :
         LET r == format_hierarchy_styled(hierarchy, level) IN
         styled' = [status |-> r.status, lines |-> r.lines, level |-> level]
    /\ UNCHANGED <<df, rowIdx, hierarchy, expander, pmOut, msOut, hierarchies, display>>

\* format_hierarchy_for_expander(items, level).
FormatHierarchyForExpander ==
    /\ styled.status # "none"
    /\ expander.status = "none"
    /\ \E items \in ItemLists, level \in 0..MaxLevel :
         LET r == format_hierarchy_for_expander(items, level) IN
         expander' = [status |-> r.status, lines |-> r.lines,
                      level |-> level, items |-> items]
    /\ UNCHANGED <<df, rowIdx, hierarchy, styled, pmOut, msOut, hierarchies, display>>

\* main, line 232.
ShowParentMasterOnly ==
    /\ pmOut.status = "none"
    /\ pmOut' = show_parent_master_only(df)
    /\ UNCHANGED <<df, rowIdx, hierarchy, styled, expander, msOut, hierarchies, display>>

\* main, line 241.
ShowMasterSub1Pairs ==
    /\ pmOut.status # "none"
    /\ msOut.status = "none"
    /\ msOut' = show_master_sub1_pairs(df)
    /\ UNCHANGED <<df, rowIdx, hierarchy, styled, expander, pmOut, hierarchies, display>>

\* main, line 224.
DisplayHierarchyByParent ==
    /\ rowIdx = Len(df.rows)
    /\ display.status = "none"
    /\ hierarchies' = get_hierarchy_by_parent(df)
    /\ display' = display_hierarchy_by_parent(df)
    /\ UNCHANGED <<df, rowIdx, hierarchy, styled, expander, pmOut, msOut>>

Init ==
    /\ \/ IsTable(df, ThreeColumns, PlainCells, MaxRows)
       \/ IsTable(df, ThreeColumns, RichCells, RichRows)
    /\ NothingCalled
Next == BuildHierarchyRow \/ FormatHierarchyStyled(0..1)
Spec == Init /\ [][Next]_vars

InitStyle ==
    /\ IsTable(df, ThreeColumns, StyleCells, StyleRows)
    /\ NothingCalled
NextStyle ==
    \/ BuildHierarchyRow
    \/ FormatHierarchyStyled(0..MaxLevel)
    \/ FormatHierarchyForExpander
SpecStyle == InitStyle /\ [][NextStyle]_vars

InitPairs ==
    /\ \E cols \in PairColumns : IsTable(df, cols, PairCells, PairRows)
    /\ NothingCalled
NextPairs == ShowParentMasterOnly \/ ShowMasterSub1Pairs
SpecPairs == InitPairs /\ [][NextPairs]_vars

InitGrouped ==
    /\ \/ IsTable(df, FourColumns, CompleteCells, GroupRows)
       \/ IsTable(df, FourColumns, SparseCells, SparseRows)
       \/ IsTable(df, ThreeColumns, SparseCells, SparseRows)
    /\ NothingCalled
NextGrouped == BuildHierarchyRow \/ DisplayHierarchyByParent
SpecGrouped == InitGrouped /\ [][NextGrouped]_vars

(***************************************************************************)
(* Vocabulary of the properties.                                           *)
(***************************************************************************)
\* The paths of keys of all entries of a nested dict.
RECURSIVE Paths(_)
Paths(h) ==
    UNION { {<<h[i].key>>} \cup { <<h[i].key>> \o p : p \in Paths(h[i].value) }
            : i \in 1..Len(h) }

\* The number of entries of a nested dict, at all levels.
RECURSIVE SumOver(_, _)
SumOver(f, n) == IF n = 0 THEN 0 ELSE f[n] + SumOver(f, n - 1)

RECURSIVE NodeCount(_)
NodeCount(h) ==
    SumOver([i \in 1..Len(h) |-> 1 + NodeCount(h[i].value)], Len(h))

\* The number of chains of entries from the top of h that spell path.
RECURSIVE ChainCount(_, _)
ChainCount(h, path) ==
    IF path = <<>> THEN 1
    ELSE SumOver([i \in 1..Len(h) |->
                    IF h[i].key = Head(path)
                    THEN ChainCount(h[i].value, Tail(path))
                    ELSE 0], Len(h))

RECURSIVE NoDuplicateSiblings(_)
NoDuplicateSiblings(h) ==
    /\ \A i, j \in 1..Len(h) : i # j => h[i].key # h[j].key
    /\ \A i \in 1..Len(h) : NoDuplicateSiblings(h[i].value)

\* Every entry of h is still in h2, in the same place, with all the entries
\* it had under it.
RECURSIVE Kept(_, _)
Kept(h, h2) ==
    /\ Len(h) <= Len(h2)
    /\ \A i \in 1..Len(h) : h2[i].key = h[i].key /\ Kept(h[i].value, h2[i].value)

\* A cell that ends a path: blank after trimming, or 'nan' in any case.
IsBlank(x) == strip(str(x)) = <<>> \/ lower(strip(str(x))) = nan_literal

\* The path of a row as section 4.1 of the specification derives it: the
\* trimmed cells up to the first blank one.
RECURSIVE TruncatedPath(_)
TruncatedPath(row) ==
    IF row = <<>> \/ IsBlank(Head(row)) THEN <<>>
    ELSE <<strip(str(Head(row)))>> \o TruncatedPath(Tail(row))

\* The trimmed non-blank cells of a row, in column order.
RECURSIVE NonBlankCells(_)
NonBlankCells(row) ==
    IF row = <<>> THEN <<>>
    ELSE (IF IsBlank(Head(row)) THEN <<>> ELSE <<strip(str(Head(row)))>>)
         \o NonBlankCells(Tail(row))

Prefixes(path) == { SubSeq(path, 1, k) : k \in 1..Len(path) }

FoldedRows == 1..rowIdx

(***************************************************************************)
(* C1.  Blank truncation: the first blank cell of a row ends that row's    *)
(* path, so the tree holds exactly the prefixes of the truncated paths of  *)
(* the rows folded in so far and nothing from a column after a blank.      *)
(* The code skips a blank cell and goes on with the next column.           *)
(***************************************************************************)
C1_BlankTruncation ==
    Paths(hierarchy) = UNION { Prefixes(TruncatedPath(df.rows[i])) : i \in FoldedRows }

(***************************************************************************)
(* C7.  A row whose first column is blank contributes nothing: every       *)
(* top-level label of the tree is the trimmed first-column value of a row  *)
(* folded in so far.                                                       *)
(***************************************************************************)
C7_TopLevelFromFirstColumn ==
    \A e \in 1..Len(hierarchy) :
        \E i \in FoldedRows : hierarchy[e].key = strip(str(df.rows[i][1]))

(***************************************************************************)
(* C2.  Prefix merging: after any number of rows no dict of the tree has   *)
(* one key twice, every prefix of the path of a folded row is spelled by   *)
(* exactly one chain of entries, and folding a row keeps every entry in    *)
(* place with everything under it.                                         *)
(***************************************************************************)
C2_OneChainPerPrefix ==
    /\ NoDuplicateSiblings(hierarchy)
    /\ \A i \in FoldedRows :
         \A p \in Prefixes(NonBlankCells(df.rows[i])) \cup Prefixes(TruncatedPath(df.rows[i])) :
            ChainCount(hierarchy, p) = 1

C2_PrefixMerging == []C2_OneChainPerPrefix /\ [][Kept(hierarchy, hierarchy')]_vars

\* Two rows folded whose paths share their first label and then differ, the
\* second adding under a node that already had a child.
C2_Witness ==
    /\ rowIdx = 2
    /\ LET p == NonBlankCells(df.rows[1])
           q == NonBlankCells(df.rows[2])
       IN  /\ Len(p) >= 2 /\ Len(q) >= 2
           /\ p[1] = q[1] /\ p[2] # q[2]
    /\ Len(hierarchy) = 1
    /\ Len(hierarchy[1].value) = 2

(***************************************************************************)
(* C9.  format_hierarchy_styled emits one line per node, in depth-first    *)
(* pre-order along insertion order, each styled by the band of its own     *)
(* depth, and leaves the tree as build_hierarchy returned it.              *)
(***************************************************************************)
\* The dict found by following path from the top of h.
RECURSIVE SubtreeAt(_, _)
SubtreeAt(h, path) ==
    IF path = <<>> THEN h ELSE SubtreeAt(GetItem(h, Head(path)), Tail(path))

CommonLen(p, q) ==
    CHOOSE c \in 0..Len(p) :
        /\ c <= Len(q)
        /\ SubSeq(p, 1, c) = SubSeq(q, 1, c)
        /\ (c < Len(p) /\ c < Len(q) => p[c + 1] # q[c + 1])

\* Node p comes before node q in the pre-order of h along insertion order.
PreorderBefore(h, p, q) ==
    LET c == CommonLen(p, q) IN
    IF c = Len(p) THEN c < Len(q)
    ELSE IF c = Len(q) THEN FALSE
    ELSE LET at == SubtreeAt(h, SubSeq(p, 1, c))
         IN  KeyIndex(at, p[c + 1]) < KeyIndex(at, q[c + 1])

\* The band of depth d: entry d of the palette, the last one from its length on.
Band(styles, d) == styles[IF d < Len(styles) THEN d + 1 ELSE Len(styles)]

C9_PreorderOneLinePerNode ==
    styled.status # "none" =>
        /\ styled.status = "return"
        /\ hierarchy = build_hierarchy(df)
        /\ Len(styled.lines) = NodeCount(hierarchy)
        /\ { styled.lines[i].node : i \in 1..Len(styled.lines) } = Paths(hierarchy)
        /\ \A i \in 1..Len(styled.lines) :
             LET l == styled.lines[i] IN
             /\ l.key = l.node[Len(l.node)]
             /\ l.style = Band(styles_styled, styled.level + Len(l.node) - 1)
        /\ \A i, j \in 1..Len(styled.lines) :
             i < j => PreorderBefore(hierarchy, styled.lines[i].node, styled.lines[j].node)

\* A tree with two top-level nodes, the first of them with a grandchild,
\* rendered from starting depth 1.
C9_Witness ==
    /\ styled.status = "return"
    /\ styled.level = 1
    /\ Len(hierarchy) = 2
    /\ \E p \in Paths(hierarchy) : Len(p) = 3 /\ p[1] = hierarchy[1].key
    /\ Len(styled.lines) >= 4

(***************************************************************************)
(* C8.  Depth-band clamping: a line at depth d carries palette entry d     *)
(* when d is below the palette length and the last entry otherwise, in     *)
(* both styled renderers, and no depth makes the lookup fail.              *)
(***************************************************************************)
C8_BandClamped ==
    /\ styled.status # "none" =>
         /\ styled.status = "return"
         /\ Len(styled.lines) = NodeCount(hierarchy)
         /\ \A i \in 1..Len(styled.lines) :
              styled.lines[i].style
                = Band(styles_styled, styled.level + Len(styled.lines[i].node) - 1)
    /\ expander.status # "none" =>
         /\ expander.status = "return"
         /\ Len(expander.lines) = Len(expander.items)
         /\ \A i \in 1..Len(expander.lines) :
              expander.lines[i].style = Band(styles_expander, expander.level)

\* Both renderers have run at depths at and beyond the end of their palettes.
C8_Witness ==
    /\ styled.status = "return"
    /\ \E i, j \in 1..Len(styled.lines) :
         /\ styled.level + Len(styled.lines[i].node) - 1 = Len(styles_styled)
         /\ styled.level + Len(styled.lines[j].node) - 1 > Len(styles_styled)
    /\ expander.status = "return"
    /\ expander.level = Len(styles_expander)
    /\ Len(expander.lines) = 2

(***************************************************************************)
(* The two-level listing as section 4.6 of the specification states it.    *)
(***************************************************************************)
\* The distinct non-missing values of a column in order of first occurrence.
RECURSIVE FirstSeen(_, _, _)
FirstSeen(d, name, n) ==
    IF n = 0 THEN <<>>
    ELSE LET init == FirstSeen(d, name, n - 1)
             x == Cell(d, n, name)
         IN  IF isna(x) \/ \E i \in 1..Len(init) : init[i] = x.s
             THEN init
             ELSE Append(init, x.s)

\* The non-missing child values found in the rows of one parent value.
ChildrenOf(d, pcol, ccol, parent) ==
    { Cell(d, r, ccol).s :
        r \in { q \in 1..Len(d.rows) :
                  /\ ~isna(Cell(d, q, pcol))
                  /\ Cell(d, q, pcol).s = parent
                  /\ ~isna(Cell(d, q, ccol)) } }

\* A set of strings in ascending order by code point.
RECURSIVE Ascending(_)
Ascending(S) ==
    IF S = {} THEN <<>>
    ELSE LET m == CHOOSE x \in S : \A y \in S : ~StrLess(y, x)
         IN  <<m>> \o Ascending(S \ {m})

\* One group: the parent unindented, then its children indented one unit.
GroupLines(d, pcol, ccol, parent) ==
    LET cs == Ascending(ChildrenOf(d, pcol, ccol, parent))
    IN  <<parent>> \o [i \in 1..Len(cs) |-> INDENT \o cs[i]]

\* The groups in order, one blank line between consecutive groups.
RECURSIVE ListingLines(_, _, _, _)
ListingLines(d, pcol, ccol, parents) ==
    IF parents = <<>> THEN <<>>
    ELSE GroupLines(d, pcol, ccol, Head(parents))
         \o (IF Len(parents) > 1 THEN << <<>> >> ELSE <<>>)
         \o ListingLines(d, pcol, ccol, Tail(parents))

Listing(d, pcol, ccol) ==
    join(NL, ListingLines(d, pcol, ccol, FirstSeen(d, pcol, Len(d.rows))))

PmApplies == pmOut.status # "none" /\ in_columns(df, PARENT) /\ in_columns(df, MASTER)

MsApplies == msOut.status # "none" /\ in_columns(df, MASTER) /\ in_columns(df, SUB1)

(***************************************************************************)
(* C3.  Two-level grouping: on every table with both named columns each    *)
(* extractor returns the listing of section 4.6: parents once each in      *)
(* first-seen order, under each its distinct non-missing children in       *)
(* ascending order, indented, one blank line between groups.               *)
(***************************************************************************)
C3_TwoLevelListing ==
    /\ PmApplies => pmOut = Return(Listing(df, PARENT, MASTER))
    /\ MsApplies => msOut = Return(Listing(df, MASTER, SUB1))

(***************************************************************************)
(* C5.  Totality over missing cells: on every table with both named        *)
(* columns each extractor returns and never fails, also when a parent has  *)
(* rows with a missing child next to rows with a present one.              *)
(***************************************************************************)
C5_TotalOverMissingCells ==
    /\ PmApplies => pmOut.status = "return"
    /\ MsApplies => msOut.status = "return"

(***************************************************************************)
(* C4.  Missing column: when either named column is absent the extractor   *)
(* returns the sentinel 'Columns not found!', whatever the rows hold; it   *)
(* does not raise and returns no empty or partial listing.                 *)
(***************************************************************************)
C4_MissingColumnSentinel ==
    /\ (pmOut.status # "none" /\ ~(in_columns(df, PARENT) /\ in_columns(df, MASTER)))
          => pmOut = Return(ColumnsNotFound)
    /\ (msOut.status # "none" /\ ~(in_columns(df, MASTER) /\ in_columns(df, SUB1)))
          => msOut = Return(ColumnsNotFound)

\* Both extractors called on a table of several non-missing rows that has
\* the first named column of each but not the second.
C4_Witness ==
    /\ df.columns = <<MASTER>>
    /\ Len(df.rows) >= 2
    /\ \A r \in 1..Len(df.rows) : ~isna(df.rows[r][1])
    /\ pmOut = Return(ColumnsNotFound)
    /\ msOut = Return(ColumnsNotFound)

(***************************************************************************)
(* C6.  Grouped rendering of a childless parent: the expander of a parent  *)
(* with no non-missing MASTER CATEGORY has a body of exactly one styled    *)
(* line, and no expander has an empty body.                                *)
(***************************************************************************)
Childless(d, parent) ==
    \A r \in 1..Len(d.rows) :
        (~isna(Cell(d, r, PARENT)) /\ Cell(d, r, PARENT).s = parent)
            => isna(Cell(d, r, MASTER))

C6_ChildlessParentOneLine ==
    display.status = "return" =>
        \A u \in 1..Len(display.units) :
            /\ display.units[u].body # <<>>
            /\ Childless(df, display.units[u].label)
                  => /\ Len(display.units[u].body) = 1
                     /\ Len(display.units[u].body[1]) = 1

(***************************************************************************)
(* C10.  On a table with exactly the four named columns in order and       *)
(* every cell present, trimmed, non-empty and not 'nan', the structure     *)
(* get_hierarchy_by_parent returns has the labels, the parent/child        *)
(* relation and the sibling order of the tree build_hierarchy returns.     *)
(***************************************************************************)
\* The nested lists of get_hierarchy_by_parent read as a nested dict.
Sub2AsTree(sub2) == [i \in 1..Len(sub2) |-> [key |-> sub2[i], value |-> <<>>]]

Sub1AsTree(sub1) ==
    [i \in 1..Len(sub1) |-> [key |-> sub1[i].name, value |-> Sub2AsTree(sub1[i].sub2)]]

MastersAsTree(masters) ==
    [i \in 1..Len(masters) |->
        [key |-> masters[i].name, value |-> Sub1AsTree(masters[i].sub1)]]

AsTree(hs) ==
    [i \in 1..Len(hs) |-> [key |-> hs[i].key, value |-> MastersAsTree(hs[i].value.masters)]]

CompleteTable(d) ==
    /\ d.columns = FourColumns
    /\ \A r \in 1..Len(d.rows) : \A c \in 1..Len(d.columns) :
         LET x == d.rows[r][c] IN
         /\ x.t = "str"
         /\ strip(x.s) = x.s
         /\ ~IsBlank(x)

C10_GroupedAgreesWithTree ==
    (CompleteTable(df) /\ rowIdx = Len(df.rows) /\ hierarchies.status # "none")
        => /\ hierarchies.status = "return"
           /\ AsTree(hierarchies.value) = hierarchy

\* A complete table whose rows share a parent and a master and split below,
\* both constructions done.
C10_Witness ==
    /\ CompleteTable(df)
    /\ Len(df.rows) >= 2
    /\ rowIdx = Len(df.rows)
    /\ hierarchies.status = "return"
    /\ Len(hierarchy) = 1
    /\ Len(hierarchy[1].value) = 1
    /\ Len(hierarchy[1].value[1].value) = 2
    /\ \A s \in 1..2 : Len(hierarchy[1].value[1].value[s].value) = 1

=============================================================================
